---- MODULE Spec2Model ----
(***************************************************************************)
(* A model of stephensebastin/wptools:                                     *)
(*   - wp_summary._summary, the lead-text scanner (SpecSummary);           *)
(*   - wptools.core.WPTools, the fetch operations of one object and the    *)
(*     attributes they merge (Spec);                                       *)
(*   - wptools.core.set_proxy and the proxy a WPTools object hands to its  *)
(*     fetcher at construction (SpecProxy).                                *)
(* Strings that are scanned are sequences of one-character strings.        *)
(***************************************************************************)
EXTENDS Integers, Sequences, FiniteSets, TLC

VARIABLES
    \* wp_summary._summary: the argument, the locals and the return value
    wikitext, lines, lineno, output, temple, braces, mark, marks, pc, result

VARIABLES
    \* wptools.core.WPTools: the attributes of one object, the HTTP requests
    \* its fetcher has issued, and the last public call with its outcome
    self, requests, call, ncalls

svars == <<wikitext, lines, lineno, output, temple, braces, mark, marks, pc,
           result>>

VARIABLES
    \* wptools.core.set_proxy: the class attribute WPTools._proxy, the proxy
    \* of the fetcher of each object constructed so far, and the requests the
    \* fetchers have sent
    WPTools_proxy, fetchers, sent

wvars == <<self, requests, call, ncalls>>

pvars == <<WPTools_proxy, fetchers, sent>>

vars == <<svars, wvars, pvars>>

(***************************************************************************)
(* Bounds                                                                  *)
(***************************************************************************)
\* the longest wikitext scanned, in lines
MaxLines == 3

\* the number of public calls made on the WPTools object after construction
MaxCalls == 2

\* the number of WPTools objects constructed, and of requests they send
MaxObjects == 2
MaxSent == 3

(***************************************************************************)
(* Python string primitives, on sequences of characters                    *)
(***************************************************************************)
\* the value of a Python name that holds no string
None == "None"

NL == "\n"

\* the characters str.lstrip() removes (the ones the sample lines use)
Whitespace == {" ", "\t"}

\* s.startswith(p)
StartsWith(s, p) ==
    /\ Len(p) <= Len(s)
    /\ SubSeq(s, 1, Len(p)) = p

\* s.endswith(p)
EndsWith(s, p) ==
    /\ Len(p) <= Len(s)
    /\ SubSeq(s, Len(s) - Len(p) + 1, Len(s)) = p

\* len(re.findall(p, s)) for a literal pattern p: the matches are found left
\* to right and do not overlap
RECURSIVE FindallCount(_, _)
FindallCount(s, p) ==
    IF Len(s) < Len(p) THEN 0
    ELSE IF StartsWith(s, p)
         THEN 1 + FindallCount(SubSeq(s, Len(p) + 1, Len(s)), p)
         ELSE FindallCount(Tail(s), p)

\* re.search('^' + open + '.*' + close + '$', line) on a line without "\n":
\* the opening and the closing literal may not overlap
Fenced(line, open, close) ==
    /\ Len(line) >= Len(open) + Len(close)
    /\ StartsWith(line, open)
    /\ EndsWith(line, close)

\* s.lstrip()
RECURSIVE lstrip(_)
lstrip(s) ==
    IF s # <<>> /\ Head(s) \in Whitespace THEN lstrip(Tail(s)) ELSE s

\* s.split("\n"): always at least one piece
RECURSIVE SplitFrom(_, _)
SplitFrom(s, cur) ==
    IF s = <<>> THEN <<cur>>
    ELSE IF Head(s) = NL THEN <<cur>> \o SplitFrom(Tail(s), <<>>)
         ELSE SplitFrom(Tail(s), Append(cur, Head(s)))

split(s) == SplitFrom(s, <<>>)

\* "\n".join(ls)
RECURSIVE join(_)
join(ls) ==
    IF ls = <<>> THEN <<>>
    ELSE IF Len(ls) = 1 THEN ls[1]
         ELSE ls[1] \o <<NL>> \o join(Tail(ls))

(***************************************************************************)
(* wp_summary._summary                                                     *)
(***************************************************************************)
LBRACES == <<"{", "{">>
RBRACES == <<"}", "}">>

\* fence, fence1, fence2 of the scanner
fence(line)  == Fenced(line, LBRACES, RBRACES)
fence1(line) == Fenced(line, <<"[", "[">>, <<"]", "]">>)
fence2(line) == Fenced(line, <<"<", "!", "-", "-">>, <<"-", "-", ">">>)

\* braces after the two updates of one iteration
BracesAfter(b, line) ==
    b + FindallCount(line, LBRACES) - FindallCount(line, RBRACES)

\* a plausible slip: leaving a template is never noticed
TempleNeverExited(t, b) ==
    LET t1 == IF b > 0 THEN TRUE ELSE t
    IN  IF t1 /\ b = 0 THEN <<FALSE, FALSE>> ELSE <<t1, FALSE>>

\* temple and exited after the two ifs of one iteration: <<temple, exited>>
TempleExited(t, b) ==
    LET t1 == IF b > 0 THEN TRUE ELSE t
    IN  IF t1 /\ b = 0 THEN <<FALSE, TRUE>> ELSE <<t1, FALSE>>

\* str(n) for n >= 0
RECURSIVE str(_)
str(n) ==
    LET digit == <<"0", "1", "2", "3", "4", "5", "6", "7", "8", "9">>
    IN  IF n < 10 THEN digit[n + 1] ELSE str(n \div 10) \o digit[(n % 10) + 1]

\* a plausible slip: only the template fence is tested
MarkOfTemplateFenceOnly(line, b, exited) ==
    LET m1 == IF fence(line) THEN "*"
              ELSE IF b > 0 THEN str(b)
              ELSE ">"
    IN  IF exited THEN "0" ELSE m1

\* the mark of a line: ">" (emitted), "*" (fenced), "0" (the line that left a
\* template), or the depth
MarkOf(line, b, exited) ==
    LET m1 == IF fence(line) \/ fence1(line) \/ fence2(line) THEN "*"
              ELSE IF b > 0 THEN str(b)
              ELSE ">"
    IN  IF exited THEN "0" ELSE m1

\* the lines of wikitext the scans are run on
SampleLines ==
    { <<>>,
      <<"a">>,
      <<" ", "b">>,
      <<"=", "h">>,
      <<" ", "=">>,
      <<"{", "{", "t">>,
      <<"}", "}">>,
      <<"|", "}", "}", "}", "}">>,
      <<"{", "{", "{", "{">>,
      <<"{", "{", "t", "}", "}">>,
      <<"{", "{", "{", "{", "}", "}">>,
      <<" ", "{", "{", "}", "}">>,
      <<"c", "{", "{", "}", "}">>,
      <<"[", "[", "w", "]", "]">>,
      <<"<", "!", "-", "-", "-", "-", ">">>,
      <<"{", "{", "{">> }

\* every wikitext of at most MaxLines sample lines
Wikitexts ==
    { join(ls) : ls \in UNION { [1..n -> SampleLines] : n \in 0..MaxLines } }

InitSummary ==
    /\ wikitext \in Wikitexts
    /\ lines = split(wikitext)
    /\ lineno = 0
    /\ output = <<>>
    /\ temple = FALSE
    /\ braces = 0
    /\ mark = " "
    /\ marks = <<>>
    /\ pc = "for"
    /\ result = None
    /\ self = None /\ requests = <<>> /\ call = None /\ ncalls = 0
    /\ WPTools_proxy = None /\ fetchers = <<>> /\ sent = <<>>

\* a plausible slip: the heading line is skipped and the scan goes on
BreakContinues ==
    /\ pc = "for"
    /\ lineno < Len(lines)
    /\ StartsWith(lines[lineno + 1], <<"=">>)
    /\ lineno' = lineno + 1
    /\ marks' = Append(marks, "=")
    /\ UNCHANGED <<wikitext, lines, output, temple, braces, mark, pc, result,
                 wvars, pvars>>

\* one iteration of the for loop that ends in the break
Break ==
    /\ pc = "for"
    /\ lineno < Len(lines)
    /\ StartsWith(lines[lineno + 1], <<"=">>)
    /\ pc' = "return"
    /\ UNCHANGED <<wikitext, lines, lineno, output, temple, braces, mark, marks,
                 result, wvars, pvars>>

\* one full iteration of the for loop
Iterate ==
    /\ pc = "for"
    /\ lineno < Len(lines)
    /\ LET line == lines[lineno + 1]
           b    == BracesAfter(braces, line)
           te   == TempleExited(temple, b)
           m    == MarkOf(line, b, te[2])
       IN  /\ ~StartsWith(line, <<"=">>)
           /\ braces' = b
           /\ temple' = te[1]
           /\ mark' = m
           /\ marks' = Append(marks, m)
           /\ output' = IF m = ">" THEN Append(output, lstrip(line)) ELSE output
    /\ lineno' = lineno + 1
    /\ UNCHANGED <<wikitext, lines, pc, result, wvars, pvars>>

\* the loop ran out of lines
Exhausted ==
    /\ pc = "for"
    /\ lineno = Len(lines)
    /\ pc' = "return"
    /\ UNCHANGED <<wikitext, lines, lineno, output, temple, braces, mark, marks,
                 result, wvars, pvars>>

\* return "\n".join(output)
Return ==
    /\ pc = "return"
    /\ result' = join(output)
    /\ pc' = "done"
    /\ UNCHANGED <<wikitext, lines, lineno, output, temple, braces, mark, marks,
                 wvars, pvars>>

NextSummary == Break \/ Iterate \/ Exhausted \/ Return

SpecSummary == InitSummary /\ [][NextSummary]_vars

(***************************************************************************)
(* Claims about _summary                                                   *)
(***************************************************************************)
IsHeading(l) == l # <<>> /\ l[1] = "="

\* the number of lines before the first heading line (all, if there is none)
LeadLen ==
    IF \E i \in 1..Len(lines) : IsHeading(lines[i])
    THEN (CHOOSE i \in 1..Len(lines) :
            /\ IsHeading(lines[i])
            /\ \A j \in 1..(i - 1) : ~IsHeading(lines[j])) - 1
    ELSE Len(lines)

\* s can be had from t by deleting elements
RECURSIVE IsSubseq(_, _)
IsSubseq(s, t) ==
    IF s = <<>> THEN TRUE
    ELSE IF t = <<>> THEN FALSE
    ELSE IF Head(s) = Head(t) THEN IsSubseq(Tail(s), Tail(t))
    ELSE IsSubseq(s, Tail(t))

LeadStripped == [i \in 1..LeadLen |-> lstrip(lines[i])]

\* C1: the output holds, in order, only left-stripped lines that precede the
\* first heading line; no line at or after it contributes, and the returned
\* text is these lines joined
C1_LeadOnly ==
    /\ lineno <= LeadLen
    /\ IsSubseq(output, LeadStripped)
    /\ pc = "done" =>
          /\ result # None
          /\ result = <<>> \/ IsSubseq(split(result), LeadStripped)

\* a finished scan of a text with lead lines, a heading and a text line behind it
C1_Witness ==
    /\ pc = "done"
    /\ LeadLen + 1 < Len(lines)
    /\ \E i \in (LeadLen + 2)..Len(lines) :
          /\ lines[i] = <<"a">>
          /\ \A j \in 1..LeadLen : lstrip(lines[j]) # <<"a">>
    /\ result # <<>>

\* the depth after line i: "{{" minus "}}" over lines 1..i
RECURSIVE Depth(_)
Depth(i) ==
    IF i = 0 THEN 0
    ELSE Depth(i - 1) + FindallCount(lines[i], LBRACES)
                      - FindallCount(lines[i], RBRACES)

Balanced ==
    /\ \A i \in 1..Len(lines) : Depth(i) >= 0
    /\ Depth(Len(lines)) = 0

\* line i lies in a multi-line template: from the line that opens it through
\* the line on which the depth is back at 0
InTemplate(i) == Depth(i) > 0 \/ (Depth(i) = 0 /\ Depth(i - 1) > 0)

IsFenced(l) ==
    \/ Fenced(l, <<"{", "{">>, <<"}", "}">>)
    \/ Fenced(l, <<"[", "[">>, <<"]", "]">>)
    \/ Fenced(l, <<"<", "!", "-", "-">>, <<"-", "-", ">">>)

\* the left-stripped lines among the first n that carry the mark ">"
RECURSIVE Emitted(_)
Emitted(n) ==
    IF n = 0 THEN <<>>
    ELSE IF marks[n] = ">" THEN Append(Emitted(n - 1), lstrip(lines[n]))
    ELSE Emitted(n - 1)

\* C2: in balanced wikitext no line of a multi-line template is emitted, from
\* the opening line through the closing line, at any depth, and the line after
\* the closing one is emitted again (unless it is fenced or opens a template)
C2_TemplateLinesExcluded ==
    Balanced =>
      /\ Len(marks) = lineno
      /\ output = Emitted(lineno)
      /\ \A i \in 1..lineno :
            /\ InTemplate(i) => marks[i] # ">"
            /\ (i > 1 /\ InTemplate(i - 1) /\ ~InTemplate(i) /\ ~IsFenced(lines[i]))
                 => marks[i] = ">"

\* a nested template was scanned through and the line behind it emitted
C2_Witness ==
    /\ Balanced
    /\ lineno = Len(lines)
    /\ \E i \in 1..(lineno - 2) :
          /\ Depth(i) > 1
          /\ Depth(i + 1) = 0
          /\ marks[i + 1] = "0"
          /\ marks[i + 2] = ">"
    /\ output # <<>>

NoFencedLineEmitted ==
    \A i \in 1..Len(marks) : IsFenced(lines[i]) => marks[i] # ">"

\* the step scans a line of the shape {{...}}
ScansFencedTemplate ==
    /\ lineno' = lineno + 1
    /\ Fenced(lines[lineno + 1], <<"{", "{">>, <<"}", "}">>)

\* C3 as stated: no fenced line is emitted, and a line of the shape {{...}}
\* leaves the brace depth as it was
C3_Original ==
    /\ []NoFencedLineEmitted
    /\ [][ScansFencedTemplate => braces' = braces]_vars

\* C3: no fenced line is emitted at any depth, and a line of the shape {{...}}
\* changes the brace depth by its own "{{" minus "}}" (so not at all exactly
\* when the two counts are equal)
C3_FencedNeverEmitted ==
    /\ []NoFencedLineEmitted
    /\ [][ScansFencedTemplate =>
            braces' - braces = FindallCount(lines[lineno + 1], <<"{", "{">>)
                             - FindallCount(lines[lineno + 1], <<"}", "}">>)]_vars

\* inside a template, a fenced line that opens one more than it closes was
\* scanned and not emitted, as were a wikilink and a comment
C3_Witness ==
    /\ lineno = 3
    /\ lines[1] = <<"{", "{", "{", "{", "}", "}">>
    /\ braces = 1
    /\ marks[1] = "*"
    /\ IsFenced(lines[2]) /\ ~Fenced(lines[2], <<"{", "{">>, <<"}", "}">>)
    /\ IsFenced(lines[3]) /\ lines[3] # lines[2]
    /\ output = <<>>

(***************************************************************************)
(* wptools.core: Python values                                             *)
(***************************************************************************)
\* None where the attribute otherwise holds a dict
NoneDict == [None |-> TRUE]

\* {}
EmptyDict == <<>>

\* d.get(k) is truthy (the keys a response carries have non-empty values)
Has(d, k) == k \in DOMAIN d

\* d.get(k)
Get(d, k) == IF k \in DOMAIN d THEN d[k] ELSE None

\* d[k] = v
Put(d, k, v) == (k :> v) @@ d

\* s.replace(' ', '_') on the titles that occur
replace_space(t) ==
    CASE t = "Given title"      -> "Given_title"
      [] t = "Query title"      -> "Query_title"
      [] t = "Parse title"      -> "Parse_title"
      [] t = "Rest title"       -> "Rest_title"
      [] t = "Redirected title" -> "Redirected_title"
      [] t = "Site title"       -> "Site_title"
      [] t = "Random title"     -> "Random_title"
      [] OTHER                  -> t

\* image.replace('[[', '').replace(']]', '') on the image names that occur
replace_brackets(n) ==
    CASE n = "[[Infobox.jpg]]" -> "Infobox.jpg"
      [] OTHER                 -> n

\* re.match(r'^Q\d+', val) on the claim values that occur
IsQid(val) == val \in {"Q298", "Q30"}

(***************************************************************************)
(* wptools.utils and wptools.fetch, as core.py uses them                   *)
(***************************************************************************)
\* utils.media_url(name, namespace)
media_url(name, namespace) ==
    "https://upload.wikimedia.org/" \o namespace \o "/" \o name

\* utils.wikidata_url(wikibase)
wikidata_url(wikibase) ==
    IF wikibase = None THEN None
    ELSE "https://www.wikidata.org/wiki/" \o wikibase

\* utils.get_infobox(parsetree): the parts of the infobox template, if any
get_infobox(parsetree) ==
    IF parsetree # NoneDict /\ Has(parsetree, "infobox") THEN parsetree.infobox
    ELSE NoneDict

\* html2text.html2text(extract).strip()
html2text(extract) == "text of " \o extract

\* fetch.WPToolsFetch.query(action, thing): the request
fetch_query(action, by, thing) ==
    [scheme |-> "https", action |-> action, by |-> by, thing |-> thing]

\* the g_* record of a request and its response
Record(query, response) ==
    [query |-> query, response |-> response, info |-> "info"]

\* utils.json_loads(response) raises ValueError
NotJSON == [json |-> FALSE]

(***************************************************************************)
(* The responses the APIs are taken to give                                *)
(***************************************************************************)
QueryMissing ==
    [json |-> TRUE,
     query |-> [pages |-> <<[title |-> "Given title", missing |-> TRUE]>>,
                random |-> <<[title |-> "Another title"]>>]]

QueryPlain ==
    [json |-> TRUE,
     query |-> [pages |-> <<[pageid |-> "p1", title |-> "Query title"]>>,
                random |-> <<[title |-> "Another title"]>>]]

QueryRich ==
    [json |-> TRUE,
     query |-> [pages |-> <<[pageid |-> "p1", title |-> "Query title",
                             extract |-> "<p>extract</p>",
                             pageimage |-> "Query.jpg",
                             thumbnail |-> [source |-> "https://thumb/Query.jpg"],
                             pageprops |-> [wikibase_item |-> "Q1"],
                             fullurl |-> "https://en.wikipedia.org/wiki/Query_title"]>>,
                random |-> <<[title |-> "Another title"]>>]]

QueryResponses == {NotJSON, QueryMissing, QueryPlain, QueryRich}

ParseNone == [json |-> TRUE]

ParsePlain ==
    [json |-> TRUE,
     parse |-> [pageid |-> "p1", title |-> "Parse title",
                parsetree |-> [root |-> "text"],
                properties |-> EmptyDict,
                wikitext |-> "wikitext"]]

ParseRich ==
    [json |-> TRUE,
     parse |-> [pageid |-> "p1", title |-> "Parse title",
                parsetree |-> [root |-> "text",
                               infobox |-> [name |-> "Name",
                                            image |-> "[[Infobox.jpg]]"]],
                iwlinks |-> "iwlinks",
                properties |-> [wikibase_item |-> "Q1"],
                wikitext |-> "wikitext"]]

ParseCover ==
    [json |-> TRUE,
     parse |-> [pageid |-> "p1", title |-> "Parse title",
                parsetree |-> [root |-> "text",
                               infobox |-> [Cover |-> "Cover.jpg"]],
                properties |-> [wikibase_item |-> "Q1"],
                wikitext |-> "wikitext"]]

ParseResponses == {NotJSON, ParseNone, ParsePlain, ParseRich, ParseCover}

RestError ==
    [json |-> TRUE, detail |-> [error |-> "not found"]]

RestPlain ==
    [json |-> TRUE, displaytitle |-> "Rest title",
     lastmodified |-> "2016-01-01", id |-> "p1"]

RestRich ==
    [json |-> TRUE, displaytitle |-> "Rest title",
     redirected |-> "Redirected title",
     description |-> "Rest description",
     image |-> [file |-> "Rest.jpg"],
     thumb |-> [url |-> "//thumb/Rest.jpg"],
     lastmodified |-> "2016-01-01", id |-> "p1",
     sections |-> <<[items |-> <<[type |-> "p", text |-> "<p>lead</p>"]>>]>>]

\* a page whose response carries no lastmodified
RestUndated ==
    [json |-> TRUE, displaytitle |-> "Rest title", id |-> "p1"]

RestResponses == {NotJSON, RestError, RestPlain, RestRich, RestUndated}

\* the entity asked for by site and title does not exist
WikidataMissing ==
    [json |-> TRUE,
     entities |-> [none |-> [site |-> "enwiki", title |-> "Given_title",
                             missing |-> TRUE]]]

\* an entity with no label, no description, no sitelink and no claim
WikidataBare ==
    [json |-> TRUE,
     entities |-> [Q1 |-> [id |-> "Q1", claims |-> EmptyDict,
                           modified |-> "2016-02-02"]]]

\* an entity with a label in the language and an image, no sitelink
WikidataLabel ==
    [json |-> TRUE,
     entities |-> [Q1 |-> [id |-> "Q1",
                           labels |-> [en |-> [value |-> "Label"]],
                           claims |-> [P18 |-> <<"Wikidata.jpg">>,
                                       P999 |-> <<"unlisted">>],
                           modified |-> "2016-02-02"]]]

\* an entity with a sitelink, a label, a description, an image and a claim
\* on another entity
WikidataFull ==
    [json |-> TRUE,
     entities |-> [Q1 |-> [id |-> "Q1",
                           labels |-> [en |-> [value |-> "Label"]],
                           descriptions |-> [en |-> [value |-> "Wikidata description"]],
                           sitelinks |-> [enwiki |-> [title |-> "Site title"]],
                           claims |-> [P18 |-> <<"Wikidata.jpg">>,
                                       P17 |-> <<"Q298">>],
                           modified |-> "2016-02-02"]]]

\* an entity with a label in another language only, and a claim
WikidataForeign ==
    [json |-> TRUE,
     entities |-> [Q1 |-> [id |-> "Q1",
                           labels |-> [de |-> [value |-> "Etikett"]],
                           sitelinks |-> [dewiki |-> [title |-> "Seite"]],
                           claims |-> [P17 |-> <<"Q298">>],
                           modified |-> "2016-02-02"]]]

\* an entity whose response carries no modified
WikidataUndated ==
    [json |-> TRUE,
     entities |-> [Q1 |-> [id |-> "Q1", claims |-> EmptyDict]]]

WikidataResponses ==
    {NotJSON, WikidataMissing, WikidataBare, WikidataLabel, WikidataFull,
     WikidataForeign, WikidataUndated}

ClaimsLabels ==
    [json |-> TRUE,
     entities |-> [Q298 |-> [labels |-> [en |-> [value |-> "Chile"]]]]]

ClaimsResponses == {NotJSON, ClaimsLabels}

RandomPage ==
    [json |-> TRUE,
     query |-> [random |-> <<[id |-> "p9", title |-> "Random title"]>>]]

RandomResponses == {NotJSON, RandomPage}

(***************************************************************************)
(* wptools.core.WPTools                                                    *)
(***************************************************************************)
\* the properties _marshal_claims keeps, with their labels (of the 39, the
\* ones the responses carry)
_WIKIPROPS == [P17 |-> "country", P18 |-> "image", P31 |-> "instance"]

\* the class attributes and what __init__ sets before it looks at the
\* identifiers
NewObject(title, pageid, wikibase) ==
    [title |-> IF title = None THEN None ELSE replace_space(title),
     pageid |-> pageid, wikibase |-> wikibase, lang |-> "en",
     fatal |-> FALSE,
     g_claims |-> NoneDict, g_parse |-> NoneDict, g_query |-> NoneDict,
     g_rest |-> NoneDict, g_wikidata |-> NoneDict,
     description |-> None, extext |-> None, extract |-> None,
     image |-> None, image_infobox |-> None, image_wikidata |-> None,
     infobox |-> NoneDict, label |-> None, lead |-> None, links |-> None,
     modified |-> None, pageimage |-> None, parsetree |-> NoneDict,
     random |-> None, thumbnail |-> None, url |-> None, urlraw |-> None,
     wikitext |-> None, wikidata_url |-> None,
     claims |-> EmptyDict, props |-> EmptyDict, images |-> EmptyDict,
     wikidata |-> EmptyDict]

\* what a call comes to: the object after it, the exception it raised (or
\* "none"), what it returned ("self" or "None") and the requests it issued,
\* each with its response
Outcome(s, raised, ret, reqs) ==
    [s |-> s, raised |-> raised, ret |-> ret, reqs |-> reqs]

\* a _set_* method that returned
Set(s) == [s |-> s, raised |-> "none"]

\* a _set_* method that raised
Raise(s, exception) == [s |-> s, raised |-> exception]

\* except ValueError: self.fatal = True; return
Fatal(s) == Set([s EXCEPT !.fatal = TRUE])

\* __get_entity_prop(entity, prop)
get_entity_prop(s, entity, prop) ==
    IF Has(entity, prop) /\ DOMAIN entity[prop] # {}
    THEN IF s.lang \in DOMAIN entity[prop]
         THEN Get(entity[prop][s.lang], "value")
         ELSE Get(entity[prop], "value")
    ELSE None

\* __set_title_wikidata, the title from the sitelink of the language's wiki
title_from_sitelink(s, item) ==
    IF s.title = None /\ Has(item, "sitelinks")
       /\ (s.lang \o "wiki") \in DOMAIN item.sitelinks
    THEN [s EXCEPT !.title = replace_space(item.sitelinks[s.lang \o "wiki"].title)]
    ELSE s

\* a slip that forgets the fallback to the label
title_from_label_forgotten(s) == s

\* __set_title_wikidata, the title from the label
title_from_label(s) ==
    IF s.title = None /\ s.label # None
    THEN [s EXCEPT !.title = replace_space(s.label)]
    ELSE s

\* __set_title_wikidata(item)
set_title_wikidata(s, item) == title_from_label(title_from_sitelink(s, item))

\* a slip that always takes the new image as the image
keep_first_image_overwrites(s, url, own) == [s EXCEPT !.image = url]

\* if self.image: the image goes to the source's own attribute, else to image
keep_first_image(s, url, own) ==
    IF s.image # None THEN [s EXCEPT ![own] = url]
    ELSE [s EXCEPT !.image = url]

\* _set_parse_data.set_pimage(dic, key)
set_pimage(s, dic, key) ==
    [keep_first_image(s, media_url(replace_brackets(dic[key]), s.lang),
                      "image_infobox")
       EXCEPT !.images = Put(s.images, "pimage", replace_brackets(dic[key]))]

\* _set_parse_data, if infobox: ...
parse_infobox(s, infobox) ==
    IF infobox = NoneDict THEN s
    ELSE IF Has(infobox, "image")
    THEN set_pimage([s EXCEPT !.infobox = infobox], infobox, "image")
    ELSE IF Has(infobox, "Cover")
    THEN set_pimage([s EXCEPT !.infobox = infobox], infobox, "Cover")
    ELSE [s EXCEPT !.infobox = infobox]

\* _set_parse_data, if not self.title: ...
parse_title(s, pdata) ==
    IF s.title = None THEN [s EXCEPT !.title = replace_space(pdata.title)]
    ELSE s

\* _set_parse_data, from self.links on
parse_rest(s, pdata) ==
    [parse_title([s EXCEPT !.links = Get(pdata, "iwlinks"),
                           !.pageid = Get(pdata, "pageid"),
                           !.parsetree = pdata.parsetree], pdata)
       EXCEPT !.wikibase = Get(pdata.properties, "wikibase_item"),
              !.wikidata_url = wikidata_url(Get(pdata.properties, "wikibase_item")),
              !.wikitext = Get(pdata, "wikitext")]

\* _set_parse_data()
_set_parse_data(s) ==
    IF ~s.g_parse.response.json THEN Fatal(s)
    ELSE IF ~Has(s.g_parse.response, "parse") THEN Raise(s, "LookupError")
    ELSE Set(parse_rest(
                 parse_infobox(s, get_infobox(s.g_parse.response.parse.parsetree)),
                 s.g_parse.response.parse))

\* _set_query_data, extract and extext
query_extract(s, page) ==
    IF Has(page, "extract")
    THEN [s EXCEPT !.extract = page.extract, !.extext = html2text(page.extract)]
    ELSE s

\* _set_query_data, the new images dict
query_images(page) ==
    (IF Has(page, "thumbnail") THEN Put(EmptyDict, "qthumb", page.thumbnail)
     ELSE EmptyDict)
    @@ (IF Has(page, "pageimage") THEN Put(EmptyDict, "qimage", page.pageimage)
        ELSE EmptyDict)

\* _set_query_data, pageimage
query_pageimage(s, page) ==
    IF Has(page, "pageimage")
    THEN [s EXCEPT !.pageimage = media_url(page.pageimage, "commons")]
    ELSE s

\* _set_query_data, thumbnail
query_thumbnail(s, page) ==
    IF Has(page, "thumbnail") /\ Has(page.thumbnail, "source")
    THEN [s EXCEPT !.thumbnail = page.thumbnail.source]
    ELSE s

\* _set_query_data, wikibase and wikidata_url
query_wikibase(s, page) ==
    IF Has(page, "pageprops") /\ Has(page.pageprops, "wikibase_item")
    THEN [s EXCEPT !.wikibase = page.pageprops.wikibase_item,
                   !.wikidata_url = wikidata_url(page.pageprops.wikibase_item)]
    ELSE s

\* a slip that takes the title of the page whether or not there is one
query_title_always(s, page) == [s EXCEPT !.title = replace_space(page.title)]

\* _set_query_data, if not self.title: ...
query_title(s, page) ==
    IF s.title = None THEN [s EXCEPT !.title = replace_space(page.title)]
    ELSE s

\* _set_query_data, url and urlraw
query_url(s, page) ==
    IF Has(page, "fullurl")
    THEN [s EXCEPT !.url = page.fullurl, !.urlraw = page.fullurl \o "?action=raw"]
    ELSE s

\* _set_query_data, from extract on
query_page(s, qdata, page) ==
    query_url(
      query_title(
        [query_wikibase(
           [query_thumbnail(query_pageimage(query_extract(s, page), page), page)
              EXCEPT !.images = query_images(page),
                     !.pageid = Get(page, "pageid")],
           page)
           EXCEPT !.random = qdata.random[1].title],
        page),
      page)

\* _set_query_data()
_set_query_data(s) ==
    IF ~s.g_query.response.json THEN Fatal(s)
    ELSE IF Has(s.g_query.response.query.pages[1], "missing")
    THEN Raise(s, "LookupError")
    ELSE Set(query_page(s, s.g_query.response.query,
                        s.g_query.response.query.pages[1]))

\* a slip that assigns the description whether or not the response has one
rest_description_unguarded(s, data) ==
    [s EXCEPT !.description = Get(data, "description")]

\* _set_rest_data, description
rest_description(s, data) ==
    IF Has(data, "description") THEN [s EXCEPT !.description = data.description]
    ELSE s

\* _set_rest_data, image
rest_image(s, data) ==
    IF Has(data, "image")
    THEN [s EXCEPT !.images = Put(s.images, "rimage", data.image),
                   !.pageimage = media_url(data.image.file, "commons")]
    ELSE s

\* _set_rest_data, thumb
rest_thumb(s, data) ==
    IF Has(data, "thumb")
    THEN [s EXCEPT !.images = Put(s.images, "rthumb", data.thumb),
                   !.thumbnail = s.g_rest.query.scheme \o ":" \o data.thumb.url]
    ELSE s

\* _set_rest_data, title, modified and pageid
rest_title(s, data) ==
    [s EXCEPT !.title = replace_space(IF Has(data, "redirected")
                                      THEN data.redirected
                                      ELSE data.displaytitle),
              !.modified = Get(data, "lastmodified"),
              !.pageid = Get(data, "id")]

\* _set_rest_data, url and urlraw
rest_url(s) ==
    [s EXCEPT !.url = s.g_rest.query.scheme \o "://" \o s.lang
                      \o ".wikipedia.org/wiki/" \o s.title,
              !.urlraw = s.g_rest.query.scheme \o "://" \o s.lang
                         \o ".wikipedia.org/wiki/" \o s.title \o "?action=raw"]

\* __get_lead_rest(data): the text of the first section's items that are
\* neither hatnote nor image
get_lead_rest(data) ==
    SelectSeq(data.sections[1].items,
              LAMBDA item : Get(item, "type") \notin {"hatnote", "image"})

\* _set_rest_data, lead; __get_lead_rest keeps the HTML in g_rest
rest_lead(s, data) ==
    IF ~Has(data, "sections") THEN s
    ELSE IF get_lead_rest(data) = <<>>
    THEN [s EXCEPT !.lead = "<lead of " \o s.title \o ">"]
    ELSE [s EXCEPT !.lead = "<lead of " \o s.title \o ">",
                   !.g_rest = Put(s.g_rest, "html", get_lead_rest(data)[1].text)]

\* _set_rest_data()
_set_rest_data(s) ==
    IF ~s.g_rest.response.json THEN Fatal(s)
    ELSE IF Has(s.g_rest.response, "detail")
            /\ Has(s.g_rest.response.detail, "error")
    THEN Set(s)
    ELSE Set(rest_lead(
               rest_url(
                 rest_title(
                   rest_thumb(
                     rest_image(rest_description(s, s.g_rest.response),
                                s.g_rest.response),
                     s.g_rest.response),
                   s.g_rest.response)),
               s.g_rest.response))

\* _update_wikidata(label, value), on the wikidata dict; a second value of a
\* label makes a list, written here as the values joined
_update_wikidata(wikidata, label, value) ==
    IF Has(wikidata, label)
    THEN Put(wikidata, label, wikidata[label] \o ", " \o value)
    ELSE Put(wikidata, label, value)

\* _wikidata_props(query_claims): the listed properties and their values
_wikidata_props(query_claims) ==
    [p \in (DOMAIN query_claims) \cap (DOMAIN _WIKIPROPS) |-> query_claims[p]]

\* _marshal_claims: the claims dict after the entity values of props ps
RECURSIVE MarshalItems(_, _, _)
MarshalItems(c, props, ps) ==
    IF ps = {} THEN c
    ELSE MarshalItems(Put(c, props[CHOOSE q \in ps : TRUE][1],
                          _WIKIPROPS[CHOOSE q \in ps : TRUE]),
                      props, ps \ {CHOOSE q \in ps : TRUE})

\* _marshal_claims: the wikidata dict after the other values of props ps
RECURSIVE MarshalTexts(_, _, _)
MarshalTexts(w, props, ps) ==
    IF ps = {} THEN w
    ELSE MarshalTexts(_update_wikidata(w, _WIKIPROPS[CHOOSE q \in ps : TRUE],
                                       props[CHOOSE q \in ps : TRUE][1]),
                      props, ps \ {CHOOSE q \in ps : TRUE})

\* the properties whose value names an entity
EntityProps(props) == {p \in DOMAIN props : IsQid(props[p][1])}

\* _marshal_claims(query_claims); every property of the responses has one value
_marshal_claims(s, query_claims) ==
    [s EXCEPT
       !.props = _wikidata_props(query_claims),
       !.claims = MarshalItems(s.claims, _wikidata_props(query_claims),
                               EntityProps(_wikidata_props(query_claims))),
       !.wikidata = MarshalTexts(s.wikidata, _wikidata_props(query_claims),
                                 (DOMAIN _wikidata_props(query_claims))
                                   \ EntityProps(_wikidata_props(query_claims)))]

\* _set_wikidata, wikibase and wikidata_url
wikidata_id(s, item) ==
    [s EXCEPT !.wikibase = Get(item, "id"),
              !.wikidata_url = wikidata_url(Get(item, "id"))]

\* _set_wikidata, description
wikidata_description(s, item) ==
    IF get_entity_prop(s, item, "descriptions") # None
    THEN [s EXCEPT !.description = get_entity_prop(s, item, "descriptions")]
    ELSE s

\* _set_wikidata, image
wikidata_image(s) ==
    IF Has(s.wikidata, "image")
    THEN [keep_first_image(s, media_url(s.wikidata.image, "commons"),
                           "image_wikidata")
            EXCEPT !.images = Put(s.images, "wimage",
                                  media_url(s.wikidata.image, "commons"))]
    ELSE s

\* _set_wikidata, label
wikidata_label(s, item) ==
    IF get_entity_prop(s, item, "labels") # None
    THEN [s EXCEPT !.label = get_entity_prop(s, item, "labels")]
    ELSE s

\* _set_wikidata, from self.wikibase on
wikidata_item(s, item) ==
    [set_title_wikidata(
       wikidata_label(
         wikidata_image(
           wikidata_description(
             _marshal_claims(wikidata_id(s, item), item.claims),
             item)),
         item),
       item)
       EXCEPT !.modified = Get(item, "modified")]

\* item = entities.get(next(iter(entities)))
FirstEntity(entities) == entities[CHOOSE k \in DOMAIN entities : TRUE]

\* _set_wikidata()
_set_wikidata(s) ==
    IF ~s.g_wikidata.response.json THEN Fatal(s)
    ELSE IF ~Has(FirstEntity(s.g_wikidata.response.entities), "id")
            /\ Has(FirstEntity(s.g_wikidata.response.entities), "title")
    THEN Raise(s, "LookupError")
    ELSE Set(wikidata_item(s, FirstEntity(s.g_wikidata.response.entities)))

\* "|".join(d.keys())
RECURSIVE JoinKeys(_)
JoinKeys(ks) ==
    IF ks = {} THEN ""
    ELSE IF ks = {CHOOSE x \in ks : TRUE} THEN CHOOSE x \in ks : TRUE
    ELSE (CHOOSE x \in ks : TRUE) \o "|" \o JoinKeys(ks \ {CHOOSE x \in ks : TRUE})

\* a slip that retries a request whose response could not be decoded
CachedUnlessUndecodable(g) == g # NoneDict /\ g.response.json

\* if self.g_*: the request is cached
Cached(g) == g # NoneDict

\* a slip that asks by title when the object has both identifiers
PageQueryByTitleFirst(action, s) ==
    IF s.title # None THEN fetch_query(action, "title", s.title)
    ELSE fetch_query(action, "pageid", s.pageid)

\* the request of get_query and get_parse: by pageid if there is one
PageQuery(action, s) ==
    IF s.pageid # None THEN fetch_query(action, "pageid", s.pageid)
    ELSE fetch_query(action, "title", s.title)

Raised(o) == o.raised # "none"

\* the call returned early, without a request
ReturnedNone(s) == Outcome(s, "none", "None", <<>>)

\* self.__fetch.curl(query): a request and the response it got
Exchange(query, response) == [query |-> query, response |-> response]

\* the outcome of a request made and its response handled by a _set_* method
Handled(r, query, response) ==
    Outcome(r.s, r.raised, IF r.raised = "none" THEN "self" ELSE "raised",
            <<Exchange(query, response)>>)

\* get_claims: the wikidata dict after the labels of the entities items
RECURSIVE ClaimLabels(_, _, _, _)
ClaimLabels(w, s, entities, items) ==
    IF items = {} THEN w
    ELSE ClaimLabels(
           _update_wikidata(w, s.claims[CHOOSE x \in items : TRUE],
               get_entity_prop(s, entities[CHOOSE x \in items : TRUE], "labels")),
           s, entities, items \ {CHOOSE x \in items : TRUE})

\* get_claims, from data = utils.json_loads(...) on: not inside a try
claims_data(s, query) ==
    IF ~s.g_claims.response.json
    THEN Outcome(s, "ValueError", "raised",
                 <<Exchange(query, s.g_claims.response)>>)
    ELSE Outcome([s EXCEPT !.wikidata =
                     ClaimLabels(s.wikidata, s, s.g_claims.response.entities,
                                 DOMAIN s.g_claims.response.entities)],
                 "none", "self", <<Exchange(query, s.g_claims.response)>>)

\* the request of get_claims
ClaimsQuery(s) == fetch_query("wikidata", "ids", JoinKeys(DOMAIN s.claims))

\* get_claims(show)
get_claims(s, response) ==
    IF DOMAIN s.claims = {} THEN ReturnedNone(s)
    ELSE IF Cached(s.g_claims) THEN ReturnedNone(s)
    ELSE claims_data([s EXCEPT !.g_claims = Record(ClaimsQuery(s), response)],
                     ClaimsQuery(s))

\* get_parse(show)
get_parse(s, response) ==
    IF Cached(s.g_parse) THEN ReturnedNone(s)
    ELSE IF s.title = None /\ s.pageid = None
    THEN Outcome(s, "LookupError", "raised", <<>>)
    ELSE Handled(_set_parse_data(
                   [s EXCEPT !.g_parse = Record(PageQuery("parse", s), response)]),
                 PageQuery("parse", s), response)

\* get_query(show)
get_query(s, response) ==
    IF Cached(s.g_query) THEN ReturnedNone(s)
    ELSE IF s.title = None /\ s.pageid = None
    THEN Outcome(s, "LookupError", "raised", <<>>)
    ELSE Handled(_set_query_data(
                   [s EXCEPT !.g_query = Record(PageQuery("query", s), response)]),
                 PageQuery("query", s), response)

\* get_random, after the try
random_page(s, rdata) ==
    IF s.title = None
    THEN [s EXCEPT !.pageid = Get(rdata, "id"),
                   !.title = replace_space(rdata.title)]
    ELSE [s EXCEPT !.pageid = Get(rdata, "id")]

\* get_random(show)
get_random(s, response) ==
    IF ~response.json
    THEN Outcome([s EXCEPT !.fatal = TRUE], "none", "None",
                 <<Exchange(fetch_query("random", "none", None), response)>>)
    ELSE Outcome(random_page(s, response.query.random[1]), "none", "self",
                 <<Exchange(fetch_query("random", "none", None), response)>>)

\* the request of get_rest; quote() leaves the titles that occur as they are
RestQuery(s) == fetch_query("/page/mobile-text/", "title", s.title)

\* get_rest(show)
get_rest(s, response) ==
    IF Cached(s.g_rest) THEN ReturnedNone(s)
    ELSE IF s.title = None THEN Outcome(s, "LookupError", "raised", <<>>)
    ELSE Handled(_set_rest_data(
                   [s EXCEPT !.g_rest = Record(RestQuery(s), response)]),
                 RestQuery(s), response)

\* the request of get_wikidata: by id if there is one, else by site and title
WikidataQuery(s) ==
    IF s.wikibase # None THEN fetch_query("wikidata", "id", s.wikibase)
    ELSE fetch_query("wikidata", s.lang \o "wiki", s.title)

\* one call after another: the second is not made if the first raised
Chain(o, n) ==
    IF Raised(o) THEN o
    ELSE Outcome(n.s, n.raised, n.ret, o.reqs \o n.reqs)

\* get_wikidata, after _set_wikidata: if self.claims and get_claims: ...
wikidata_claims(o, wants_claims, claims_response) ==
    IF Raised(o) THEN o
    ELSE IF DOMAIN o.s.claims # {} /\ wants_claims
    THEN Chain(o, [get_claims(o.s, claims_response) EXCEPT !.ret =
                      IF @ = "raised" THEN "raised" ELSE "self"])
    ELSE o

\* get_wikidata(show, get_claims), with the response to the claims request
\* it may make
get_wikidata(s, response, wants_claims, claims_response) ==
    IF Cached(s.g_wikidata) THEN ReturnedNone(s)
    ELSE IF s.wikibase = None /\ s.title = None THEN ReturnedNone(s)
    ELSE wikidata_claims(
           Handled(_set_wikidata(
                     [s EXCEPT !.g_wikidata = Record(WikidataQuery(s), response)]),
                   WikidataQuery(s), response),
           wants_claims, claims_response)

\* a slip that asks Wikidata first whenever there is a wikibase id
WikidataFirstIfWikibase(s) == s.wikibase # None

\* get(): the object has a wikibase id and no title
WikidataFirst(s) == s.wikibase # None /\ s.title = None

\* get() after its first call
get_query_after(o, response) ==
    IF Raised(o) THEN o ELSE Chain(o, get_query(o.s, response))

get_parse_after(o, response) ==
    IF Raised(o) THEN o ELSE Chain(o, get_parse(o.s, response))

get_wikidata_after(o, response, claims_response) ==
    IF Raised(o) THEN o
    ELSE Chain(o, get_wikidata(o.s, response, TRUE, claims_response))

\* get(): return self, unless a call raised
get_returns(o) ==
    IF Raised(o) THEN Outcome(o.s, o.raised, "raised", o.reqs)
    ELSE Outcome(o.s, "none", "self", o.reqs)

\* get(show)
get(s, query_response, parse_response, wikidata_response, claims_response) ==
    IF WikidataFirst(s)
    THEN get_returns(
           get_parse_after(
             get_query_after(
               get_wikidata(s, wikidata_response, TRUE, claims_response),
               query_response),
             parse_response))
    ELSE get_returns(
           get_wikidata_after(
             get_parse_after(get_query(s, query_response), parse_response),
             wikidata_response, claims_response))

\* __init__(title, pageid=, wikibase=), with the response to the random
\* request it makes when it is given no identifier
__init__(title, pageid, wikibase, random_response) ==
    IF pageid = None /\ title = None /\ wikibase = None
    THEN get_random(NewObject(title, pageid, wikibase), random_response)
    ELSE ReturnedNone(NewObject(title, pageid, wikibase))

(***************************************************************************)
(* One WPTools object and the calls made on it                             *)
(***************************************************************************)
Titles == {None, "Given title"}
Pageids == {None, "p1"}
Wikibases == {None, "Q1"}

\* the record of a call: its name, the exception raised, the value returned
\* and the requests it issued
Called(op, o) ==
    [op |-> op, raised |-> o.raised, ret |-> o.ret, issued |-> o.reqs]

\* the state after construction
Constructed(o) ==
    /\ self = o.s
    /\ requests = o.reqs
    /\ call = Called("__init__", o)

\* the state after a call
Do(op, o) ==
    /\ ncalls < MaxCalls
    /\ self' = o.s
    /\ requests' = requests \o o.reqs
    /\ call' = Called(op, o)
    /\ ncalls' = ncalls + 1
    /\ UNCHANGED <<svars, pvars>>

Init ==
    /\ \E t \in Titles, p \in Pageids, w \in Wikibases, r \in RandomResponses :
         Constructed(__init__(t, p, w, r))
    /\ ncalls = 0
    /\ wikitext = <<>> /\ lines = <<>> /\ lineno = 0 /\ output = <<>>
    /\ temple = FALSE /\ braces = 0 /\ mark = " " /\ marks = <<>>
    /\ pc = "idle" /\ result = None
    /\ WPTools_proxy = None /\ fetchers = <<>> /\ sent = <<>>

Call_get ==
    \E q \in QueryResponses, p \in ParseResponses, w \in WikidataResponses,
       c \in ClaimsResponses :
         Do("get", get(self, q, p, w, c))

Call_get_claims ==
    \E c \in ClaimsResponses : Do("get_claims", get_claims(self, c))

Call_get_parse ==
    \E p \in ParseResponses : Do("get_parse", get_parse(self, p))

Call_get_query ==
    \E q \in QueryResponses : Do("get_query", get_query(self, q))

Call_get_random ==
    \E r \in RandomResponses : Do("get_random", get_random(self, r))

Call_get_rest ==
    \E r \in RestResponses : Do("get_rest", get_rest(self, r))

Call_get_wikidata ==
    \E w \in WikidataResponses, f \in BOOLEAN, c \in ClaimsResponses :
         Do("get_wikidata", get_wikidata(self, w, f, c))

Next ==
    \/ Call_get
    \/ Call_get_claims
    \/ Call_get_parse
    \/ Call_get_query
    \/ Call_get_random
    \/ Call_get_rest
    \/ Call_get_wikidata

Spec == Init /\ [][Next]_vars

(***************************************************************************)
(* wptools.core.set_proxy and the fetchers of the objects                  *)
(***************************************************************************)
Proxies == {"proxy-a", "proxy-b"}

\* set_proxy(proxy)
set_proxy ==
    /\ \E proxy \in Proxies : WPTools_proxy' = proxy
    /\ UNCHANGED <<fetchers, sent, svars, wvars>>

\* WPTools.__init__: the fetcher is made with proxy=self._proxy
New ==
    /\ Len(fetchers) < MaxObjects
    /\ fetchers' = Append(fetchers, WPTools_proxy)
    /\ UNCHANGED <<WPTools_proxy, sent, svars, wvars>>

\* a request of object o: its fetcher uses the proxy it was made with
Curl ==
    /\ Len(sent) < MaxSent
    /\ \E o \in 1..Len(fetchers) :
         sent' = Append(sent, [object |-> o, proxy |-> fetchers[o]])
    /\ UNCHANGED <<WPTools_proxy, fetchers, svars, wvars>>

InitProxy ==
    /\ WPTools_proxy = None /\ fetchers = <<>> /\ sent = <<>>
    /\ self = None /\ requests = <<>> /\ call = None /\ ncalls = 0
    /\ wikitext = <<>> /\ lines = <<>> /\ lineno = 0 /\ output = <<>>
    /\ temple = FALSE /\ braces = 0 /\ mark = " " /\ marks = <<>>
    /\ pc = "idle" /\ result = None

NextProxy == set_proxy \/ New \/ Curl

SpecProxy == InitProxy /\ [][NextProxy]_vars

(***************************************************************************)
(* Claims about WPTools                                                    *)
(***************************************************************************)
\* what a request asks: "query", "parse", "rest", "wikidata", "claims" or
\* "random"
KindOf(x) ==
    IF x.query.action = "/page/mobile-text/" THEN "rest"
    ELSE IF x.query.action = "wikidata" /\ x.query.by = "ids" THEN "claims"
    ELSE x.query.action

Kinds(xs) == [i \in 1..Len(xs) |-> KindOf(xs[i])]

\* the place of the request of a kind among the requests made so far (0: none)
PlaceOf(kind) ==
    IF \E i \in 1..Len(requests) : KindOf(requests[i]) = kind
    THEN CHOOSE i \in 1..Len(requests) : KindOf(requests[i]) = kind
    ELSE 0

\* the image URL the parse response supplied (None: none)
ParseImage ==
    IF PlaceOf("parse") = 0 THEN None
    ELSE LET r == requests[PlaceOf("parse")].response
         IN  IF r.json /\ Has(r, "parse") /\ Has(r.parse.parsetree, "infobox")
             THEN IF Has(r.parse.parsetree.infobox, "image")
                  THEN "https://upload.wikimedia.org/en/Infobox.jpg"
                  ELSE IF Has(r.parse.parsetree.infobox, "Cover")
                  THEN "https://upload.wikimedia.org/en/Cover.jpg"
                  ELSE None
             ELSE None

\* the image URL the wikidata response supplied (None: none)
WikidataImage ==
    IF PlaceOf("wikidata") = 0 THEN None
    ELSE LET r == requests[PlaceOf("wikidata")].response
         IN  IF r.json /\ Has(r.entities, "Q1") /\ Has(r.entities.Q1.claims, "P18")
             THEN "https://upload.wikimedia.org/commons/Wikidata.jpg"
             ELSE None

ImageOfFirstSupplier ==
    /\ (ParseImage = None /\ WikidataImage = None) =>
          self.image = None
    /\ (ParseImage # None /\ WikidataImage = None) =>
          self.image = ParseImage
    /\ (ParseImage = None /\ WikidataImage # None) =>
          self.image = WikidataImage
    /\ (ParseImage # None /\ WikidataImage # None
          /\ PlaceOf("parse") < PlaceOf("wikidata")) =>
          /\ self.image = ParseImage
          /\ self.image_wikidata = WikidataImage
    /\ (ParseImage # None /\ WikidataImage # None
          /\ PlaceOf("wikidata") < PlaceOf("parse")) =>
          /\ self.image = WikidataImage
          /\ self.image_infobox = ParseImage

\* C4: whatever the order of get_parse and get_wikidata, image is the image
\* of the first of the two that supplied one and is not overwritten; the
\* image of the later one is in image_infobox or image_wikidata
C4_FirstImageKept ==
    /\ []ImageOfFirstSupplier
    /\ [][self.image # None => self'.image = self.image]_vars

\* wikidata supplied its image first, the infobox image came later
C4_Witness ==
    /\ PlaceOf("wikidata") > 0
    /\ PlaceOf("wikidata") < PlaceOf("parse")
    /\ self.image = "https://upload.wikimedia.org/commons/Wikidata.jpg"
    /\ self.image_infobox = "https://upload.wikimedia.org/en/Infobox.jpg"
    /\ self.image_wikidata = None

\* the g_* attribute of a fetch operation (get_random keeps no record)
RecordOf(op) ==
    CASE op = "get_query"    -> "g_query"
      [] op = "get_parse"    -> "g_parse"
      [] op = "get_rest"     -> "g_rest"
      [] op = "get_wikidata" -> "g_wikidata"
      [] op = "get_claims"   -> "g_claims"
      [] OTHER               -> "fatal"

FetchOps ==
    {"get_query", "get_parse", "get_rest", "get_wikidata", "get_claims",
     "get_random"}

\* the step is a call of a fetch operation that got an undecodable response
UndecodableStep ==
    /\ call'.op \in FetchOps
    /\ ncalls' = ncalls + 1
    /\ \E i \in 1..Len(call'.issued) : ~call'.issued[i].response.json

\* C5 as stated: a fetch operation whose response cannot be decoded sets
\* fatal, returns without raising, and changes no attribute but fatal and
\* its own g_* record
C5_LogAndMarkFatal ==
    [][UndecodableStep =>
         /\ self'.fatal = TRUE
         /\ call'.raised = "none"
         /\ self' = [self EXCEPT !.fatal = self'.fatal,
                                 ![RecordOf(call'.op)] = self'[RecordOf(call'.op)]]
      ]_vars

Records == {"g_query", "g_parse", "g_rest", "g_wikidata", "g_claims"}

RecordedKinds == {"query", "parse", "rest", "wikidata", "claims"}

AtMostOneRequestOfAKind ==
    \A k \in RecordedKinds :
        Cardinality({i \in 1..Len(requests) : KindOf(requests[i]) = k}) <= 1

\* the step is a call of operation op on an object whose record g is set
CachedCall(op, g) == call'.op = op /\ ncalls' = ncalls + 1 /\ self[g] # NoneDict

\* C6: at most one request of each kind is ever issued; a g_* record, once
\* set, is never cleared or replaced; a later call of the operation issues
\* no request and changes no attribute, also after a decode failure or a
\* LookupError
C6_RequestCachedForGood ==
    /\ []AtMostOneRequestOfAKind
    /\ [][\A g \in Records : self[g] # NoneDict => self'[g] = self[g]]_vars
    /\ [][\A op \in FetchOps \ {"get_random"} :
            CachedCall(op, RecordOf(op)) =>
              /\ self' = self
              /\ requests' = requests
              /\ call'.issued = <<>>
              /\ call'.raised = "none"]_vars

\* get_query was called again after a first call that raised LookupError
C6_Witness ==
    /\ ncalls = 2
    /\ call.op = "get_query"
    /\ call.issued = <<>>
    /\ call.ret = "None"
    /\ self.g_query # NoneDict
    /\ self.g_query.response = QueryMissing
    /\ Len(requests) = 1

\* the step is a call of get()
GetStep == call'.op = "get" /\ ncalls' = ncalls + 1

\* C7: get() issues its requests in the order wikidata, query, parse when
\* the object has a wikibase id and no title, else in the order query, parse,
\* wikidata; the claims request comes only after the wikidata request of the
\* same call, and only if there is a claim to resolve
C7_GetOrder ==
    [][GetStep =>
         /\ IF self.wikibase # None /\ self.title = None
            THEN IsSubseq(Kinds(call'.issued),
                          <<"wikidata", "claims", "query", "parse">>)
            ELSE IsSubseq(Kinds(call'.issued),
                          <<"query", "parse", "wikidata", "claims">>)
         /\ \A i \in 1..Len(call'.issued) :
              KindOf(call'.issued[i]) = "claims" =>
                /\ i > 1
                /\ KindOf(call'.issued[i - 1]) = "wikidata"
                /\ DOMAIN self'.claims # {}
      ]_vars

\* get() on an object with a wikibase id only made all four requests
C7_Witness ==
    /\ call.op = "get"
    /\ ncalls = 1
    /\ Kinds(call.issued) = <<"wikidata", "claims", "query", "parse">>
    /\ Kinds(requests) = <<"wikidata", "claims", "query", "parse">>
    /\ call.raised = "none"

\* the object was made with an identifier and no call was made on it yet
FreshWithIdentifier ==
    /\ ncalls = 0
    /\ requests = <<>>
    /\ self.title # None \/ self.pageid # None \/ self.wikibase # None

\* the response is JSON and describes an existing page or entity
DescribesExisting(x) ==
    /\ x.response.json
    /\ KindOf(x) = "query" => ~Has(x.response.query.pages[1], "missing")
    /\ KindOf(x) = "parse" => Has(x.response, "parse")
    /\ KindOf(x) = "wikidata" => Has(FirstEntity(x.response.entities), "id")

\* the step is get() on a fresh object, with good responses only
GoodGetStep ==
    /\ GetStep
    /\ FreshWithIdentifier
    /\ \A i \in 1..Len(call'.issued) : DescribesExisting(call'.issued[i])

Populated ==
    /\ call'.raised = "none"
    /\ call'.ret = "self"
    /\ self'.g_query # NoneDict
    /\ self'.g_parse # NoneDict
    /\ self'.g_wikidata # NoneDict

\* C8 as stated: get() on an object made with any identifier, given good
\* responses, returns the object with g_query, g_parse and g_wikidata set
C8_Original == [][GoodGetStep => Populated]_vars

\* the entity of the first response names no page: no sitelink of the
\* language's wiki and no label in the language
EntityWithoutTitle(x) ==
    /\ KindOf(x) = "wikidata"
    /\ ~(Has(FirstEntity(x.response.entities), "sitelinks")
         /\ Has(FirstEntity(x.response.entities).sitelinks, "enwiki"))
    /\ ~(Has(FirstEntity(x.response.entities), "labels")
         /\ Has(FirstEntity(x.response.entities).labels, "en"))

\* the object has a wikibase id only and its entity names no page
NoTitleToBeHad ==
    /\ self.title = None /\ self.pageid = None
    /\ call'.issued # <<>>
    /\ EntityWithoutTitle(call'.issued[1])

\* C8: get() on an object made with a title or a pageid, or with a wikibase
\* id whose entity has a sitelink or a label, given good responses, returns
\* the object with the three records set; with a wikibase id only and an
\* entity that has neither, get() raises LookupError after the wikidata
\* request and g_query and g_parse stay unset
C8_GetPopulates ==
    [][GoodGetStep =>
         IF NoTitleToBeHad
         THEN /\ call'.raised = "LookupError"
              /\ Kinds(call'.issued) \in {<<"wikidata">>, <<"wikidata", "claims">>}
              /\ self'.g_wikidata # NoneDict
              /\ self'.g_query = NoneDict
              /\ self'.g_parse = NoneDict
         ELSE Populated
      ]_vars

\* get() on an object with a wikibase id only took the title from the label
C8_Witness ==
    /\ call.op = "get"
    /\ ncalls = 1
    /\ call.raised = "none"
    /\ call.ret = "self"
    /\ requests[1].query.by = "id"
    /\ requests[1].response = WikidataLabel
    /\ self.title = "Label"
    /\ requests[2].query = [scheme |-> "https", action |-> "query",
                            by |-> "title", thing |-> "Label"]
    /\ self.g_query # NoneDict /\ self.g_parse # NoneDict

\* the step is a call of op
CallOf(op) == call'.op = op /\ ncalls' = ncalls + 1

\* the call issued no request and left the object as it was, the record unset
NothingDone(g) ==
    /\ call'.issued = <<>>
    /\ requests' = requests
    /\ self' = self
    /\ self'[g] = NoneDict

\* C10: without title and pageid get_query and get_parse raise LookupError,
\* without title get_rest raises LookupError, without wikibase and title
\* get_wikidata returns; none of them issues a request or changes an
\* attribute, and the record stays unset; with both a pageid and a title
\* get_query and get_parse ask by pageid
C10_IdentifierPreconditions ==
    [][/\ \A op \in {"get_query", "get_parse"} :
            /\ (CallOf(op) /\ self.title = None /\ self.pageid = None) =>
                  /\ call'.raised = "LookupError"
                  /\ NothingDone(RecordOf(op))
            /\ (CallOf(op) /\ self.title # None /\ self.pageid # None
                  /\ call'.issued # <<>>) =>
                  /\ call'.issued[1].query.by = "pageid"
                  /\ call'.issued[1].query.thing = self.pageid
       /\ (CallOf("get_rest") /\ self.title = None) =>
             /\ call'.raised = "LookupError"
             /\ NothingDone("g_rest")
       /\ (CallOf("get_wikidata") /\ self.wikibase = None /\ self.title = None) =>
             /\ call'.raised = "none"
             /\ call'.ret = "None"
             /\ NothingDone("g_wikidata")
      ]_vars

\* get_query raised on an object with a wikibase id only and did nothing
C10_Witness ==
    /\ call.op = "get_query"
    /\ call.raised = "LookupError"
    /\ call.issued = <<>>
    /\ self.title = None /\ self.pageid = None
    /\ self.wikibase = "Q1"
    /\ self.g_query = NoneDict
    /\ ncalls = 1

(***************************************************************************)
(* Claims about set_proxy                                                  *)
(***************************************************************************)
\* C9 as stated: once set_proxy(p) was called, every request of every
\* object, also of one constructed before the call, goes through p
C9_ProxyForAllRequests ==
    [][(sent' # sent /\ WPTools_proxy # None) =>
         sent'[Len(sent')].proxy = WPTools_proxy]_vars

(***************************************************************************)
(* Claims about the attributes several sources supply                      *)
(***************************************************************************)
\* the response was taken in by its _set_* method: it is JSON and names no
\* missing page, no RESTBase error and no missing entity
TakenIn(x) ==
    /\ x.response.json
    /\ KindOf(x) = "query" => ~Has(x.response.query.pages[1], "missing")
    /\ KindOf(x) = "parse" => Has(x.response, "parse")
    /\ KindOf(x) = "rest" =>
         ~(Has(x.response, "detail") /\ Has(x.response.detail, "error"))
    /\ KindOf(x) = "wikidata" =>
         ~(~Has(FirstEntity(x.response.entities), "id")
           /\ Has(FirstEntity(x.response.entities), "title"))

\* the title an entity gives: of its sitelink for the language's wiki, else
\* its label in the language, else none
TitleOfEntity(item) ==
    IF Has(item, "sitelinks") /\ Has(item.sitelinks, "enwiki")
    THEN replace_space(item.sitelinks.enwiki.title)
    ELSE IF Has(item, "labels") /\ Has(item.labels, "en")
    THEN replace_space(item.labels.en.value)
    ELSE None

\* the title the response of a direct call gives to an object without one
TitleGiven(x) ==
    CASE KindOf(x) = "query"    -> replace_space(x.response.query.pages[1].title)
      [] KindOf(x) = "parse"    -> replace_space(x.response.parse.title)
      [] KindOf(x) = "random"   -> replace_space(x.response.query.random[1].title)
      [] KindOf(x) = "wikidata" -> TitleOfEntity(FirstEntity(x.response.entities))
      [] OTHER                  -> None

\* the title the response of get_rest carries, spaces written as underscores
TitleOfRest(x) ==
    replace_space(IF Has(x.response, "redirected") THEN x.response.redirected
                  ELSE x.response.displaytitle)

TitleKeepers ==
    {"get_query", "get_parse", "get_wikidata", "get_random", "get_claims", "get"}

\* C11: get_query, get_parse, get_wikidata and get_random (and get(), which
\* calls them) never change a title that is not empty; called on an object
\* without a title they set it from the response they take in, get_wikidata
\* from the sitelink of the language's wiki or else from the label;
\* get_rest replaces the title by the redirected title of the response it
\* takes in, or else by its displaytitle
C11_TitleReconciled ==
    [][/\ \A op \in TitleKeepers :
            (CallOf(op) /\ self.title # None) => self'.title = self.title
       /\ \A op \in {"get_query", "get_parse", "get_wikidata", "get_random"} :
            (CallOf(op) /\ self.title = None) =>
               self'.title = IF call'.issued # <<>> /\ TakenIn(call'.issued[1])
                             THEN TitleGiven(call'.issued[1])
                             ELSE None
       /\ CallOf("get_rest") =>
            self'.title = IF call'.issued # <<>> /\ TakenIn(call'.issued[1])
                          THEN TitleOfRest(call'.issued[1])
                          ELSE self.title
      ]_vars

\* get_query took in a page of another title and the given title stayed,
\* then get_rest replaced it
C11_Witness ==
    /\ ncalls = 2
    /\ Len(requests) = 2
    /\ call.op = "get_rest"
    /\ requests[1].response = QueryPlain
    /\ requests[1].query.thing = "Given_title"
    /\ requests[2].query.thing = "Given_title"
    /\ requests[2].response = RestRich
    /\ self.title = "Redirected_title"

\* the description a response supplies (None: none)
DescriptionOf(x) ==
    IF ~TakenIn(x) THEN None
    ELSE IF KindOf(x) = "rest" THEN Get(x.response, "description")
    ELSE IF KindOf(x) = "wikidata"
            /\ Has(FirstEntity(x.response.entities), "descriptions")
            /\ Has(FirstEntity(x.response.entities).descriptions, "en")
    THEN FirstEntity(x.response.entities).descriptions.en.value
    ELSE None

\* the thumbnail a response supplies (None: none)
ThumbnailOf(x) ==
    IF ~TakenIn(x) THEN None
    ELSE IF KindOf(x) = "query"
            /\ Has(x.response.query.pages[1], "thumbnail")
            /\ Has(x.response.query.pages[1].thumbnail, "source")
    THEN x.response.query.pages[1].thumbnail.source
    ELSE IF KindOf(x) = "rest" /\ Has(x.response, "thumb")
    THEN x.query.scheme \o ":" \o x.response.thumb.url
    ELSE None

\* the response is one of get_rest or get_wikidata that was taken in
ReportsModified(x) == KindOf(x) \in {"rest", "wikidata"} /\ TakenIn(x)

\* the date a response of get_rest or get_wikidata reports (None: none)
ModifiedOf(x) ==
    IF ~ReportsModified(x) THEN None
    ELSE IF KindOf(x) = "rest" THEN Get(x.response, "lastmodified")
    ELSE Get(FirstEntity(x.response.entities), "modified")

\* the value of the most recent request so far that supplied one
LatestSupplied(Of(_)) ==
    LET suppliers == {i \in 1..Len(requests) : Of(requests[i]) # None}
    IN  IF suppliers = {} THEN None
        ELSE Of(requests[CHOOSE i \in suppliers : \A j \in suppliers : j <= i])

\* what the most recent response of get_rest or get_wikidata taken in so far
\* reports as the date, a date or none
LatestReported ==
    LET reports == {i \in 1..Len(requests) : ReportsModified(requests[i])}
    IN  IF reports = {} THEN None
        ELSE ModifiedOf(requests[CHOOSE i \in reports : \A j \in reports : j <= i])

\* C12 as stated: description and thumbnail are those of the most recent
\* source that supplied one, modified is what the most recent of get_rest
\* and get_wikidata reported, and modified is never cleared once it holds a
\* date
C12_Original ==
    /\ [](/\ self.description = LatestSupplied(DescriptionOf)
          /\ self.thumbnail = LatestSupplied(ThumbnailOf)
          /\ self.modified = LatestReported)
    /\ [][self.modified # None => self'.modified # None]_vars

\* C12: description and thumbnail are those of the most recent source that
\* supplied one and are never reset by a fetch that lacks them; modified is
\* what the most recent response of get_rest or get_wikidata that was taken
\* in reported, and is empty again when that response reports no date
C12_LatestSupplierWins ==
    /\ self.description = LatestSupplied(DescriptionOf)
    /\ self.thumbnail = LatestSupplied(ThumbnailOf)
    /\ self.modified = LatestReported

\* wikidata supplied a description and a date; a later get_rest response
\* without either kept the description and cleared the date
C12_Witness ==
    /\ Len(requests) = 2
    /\ requests[1].response = WikidataFull
    /\ requests[2].response = RestUndated
    /\ self.description = "Wikidata description"
    /\ LatestSupplied(ModifiedOf) = "2016-02-02"
    /\ self.modified = None

\* the keys of images a response supplies
ImageKeysOf(x) ==
    IF ~TakenIn(x) THEN {}
    ELSE CASE KindOf(x) = "query" ->
                {k \in {"qimage"} : Has(x.response.query.pages[1], "pageimage")}
                \cup {k \in {"qthumb"} : Has(x.response.query.pages[1], "thumbnail")}
           [] KindOf(x) = "parse" ->
                {k \in {"pimage"} :
                   /\ Has(x.response.parse.parsetree, "infobox")
                   /\ \/ Has(x.response.parse.parsetree.infobox, "image")
                      \/ Has(x.response.parse.parsetree.infobox, "Cover")}
           [] KindOf(x) = "rest" ->
                {k \in {"rimage"} : Has(x.response, "image")}
                \cup {k \in {"rthumb"} : Has(x.response, "thumb")}
           [] KindOf(x) = "wikidata" ->
                {k \in {"wimage"} :
                   Has(FirstEntity(x.response.entities).claims, "P18")}
           [] OTHER -> {}

\* C13 as stated: images holds the entries of every source fetched so far
\* that supplied an image, and no fetch removes an entry of an earlier one
C13_ImagesAccumulate ==
    /\ [](\A i \in 1..Len(requests) :
            ImageKeysOf(requests[i]) \subseteq DOMAIN self.images)
    /\ [][\A k \in DOMAIN self.images :
            k \in DOMAIN self'.images /\ self'.images[k] = self.images[k]]_vars

====
